---- MODULE Spec2Model ----
(***************************************************************************)
(* Model of main/esp_ot_cli.c: the startup task (app_main) that bootstraps *)
(* the Thread stack as an end device or as a forming router/leader, the    *)
(* RGB indicator loop (led_blink_task) and the serial echo loop            *)
(* (uart_read_task).  The OpenThread stack, the LED strip driver and the   *)
(* UART driver are collaborators: they are modelled by the state the code  *)
(* can observe (role, stored dataset, commanded interface state) and by    *)
(* nondeterministic return values.                                         *)
(***************************************************************************)
EXTENDS Integers, Sequences, FiniteSets, TLC

\* ------------------------------------------------------------- bounds
\* Number of times the device is started (app_main entered) in one behaviour.
MaxBoots == 2
\* Number of indicator cycles observed in one behaviour.
MaxCycles == 5
\* Largest number of bytes one uart_read_bytes call returns in the model.
MaxRead == 3
\* Number of echo loop iterations observed in one behaviour.
MaxIter == 2
\* Number of indicator cycles followed after the hand-off from app_main.
MaxHandoffCycles == 2
\* Number of indicator cycles over which the lag behind the stack's role and
\* the leader notice are observed.
MaxLagCycles == 3
\* Number of indicator cycles over which the throttled role log is observed.
MaxLogCycles == 51

\* ------------------------------------------------- program constants
UART_RX_PIN == 4
UART_BUF_SIZE == 1024

\* otDeviceRole, numbered as the log line of led_blink_task documents.
OT_DEVICE_ROLE_DISABLED == 0
OT_DEVICE_ROLE_DETACHED == 1
OT_DEVICE_ROLE_CHILD == 2
OT_DEVICE_ROLE_ROUTER == 3
OT_DEVICE_ROLE_LEADER == 4
Roles == OT_DEVICE_ROLE_DISABLED .. OT_DEVICE_ROLE_LEADER

\* otError values the code distinguishes: OT_ERROR_NONE and anything else.
OT_ERROR_NONE == "OT_ERROR_NONE"
OT_ERROR_FAILED == "OT_ERROR_FAILED"
OtErrors == {OT_ERROR_NONE, OT_ERROR_FAILED}

\* Build-time switch CONFIG_DEVICE_TYPE_END_DEVICE.
Variants == {"EndDevice", "Forming"}

\* ------------------------------------------------------------ datasets
Zeros(n) == [i \in 1..n |-> 0]

\* memcpy(dst, src, n): the first n bytes of dst are replaced by those of src.
memcpy(dst, src, n) == [i \in DOMAIN dst |-> IF i <= n THEN src[i] ELSE dst[i]]

\* strlen of a byte string held in a tuple: the bytes before the first NUL.
strlen(s) == IF \E i \in DOMAIN s : s[i] = 0
             THEN (CHOOSE i \in DOMAIN s : s[i] = 0 /\ \A j \in 1..(i-1) : s[j] # 0) - 1
             ELSE Len(s)

\* memset(&dataset, 0, sizeof(otOperationalDataset))
ZeroDataset ==
  [ mActiveTimestamp  |-> [mSeconds |-> 0, mTicks |-> 0, mAuthoritative |-> FALSE],
    mPendingTimestamp |-> [mSeconds |-> 0, mTicks |-> 0, mAuthoritative |-> FALSE],
    mNetworkKey       |-> Zeros(16),
    mNetworkName      |-> Zeros(17),
    mExtendedPanId    |-> Zeros(8),
    mMeshLocalPrefix  |-> Zeros(8),
    mDelay            |-> 0,
    mPanId            |-> 0,
    mChannel          |-> 0,
    mPskc             |-> Zeros(16),
    mSecurityPolicy   |-> [mRotationTime |-> 0,
                           mObtainNetworkKeyEnabled |-> FALSE,
                           mNativeCommissioningEnabled |-> FALSE,
                           mRoutersEnabled |-> FALSE,
                           mExternalCommissioningEnabled |-> FALSE],
    mChannelMask      |-> 0,
    mComponents       |-> [mIsActiveTimestampPresent |-> FALSE,
                           mIsPendingTimestampPresent |-> FALSE,
                           mIsNetworkKeyPresent |-> FALSE,
                           mIsNetworkNamePresent |-> FALSE,
                           mIsExtendedPanIdPresent |-> FALSE,
                           mIsMeshLocalPrefixPresent |-> FALSE,
                           mIsDelayPresent |-> FALSE,
                           mIsPanIdPresent |-> FALSE,
                           mIsChannelPresent |-> FALSE,
                           mIsPskcPresent |-> FALSE,
                           mIsSecurityPolicyPresent |-> FALSE,
                           mIsChannelMaskPresent |-> FALSE] ]

\* "OpenThread" as a C string literal (with its terminating NUL).
networkName == <<79, 112, 101, 110, 84, 104, 114, 101, 97, 100, 0>>
\* {0xde, 0xad, 0x00, 0xbe, 0xef, 0x00, 0xca, 0xfe}
extPanId == <<222, 173, 0, 190, 239, 0, 202, 254>>
\* {0xc7, 0x16, 0xd0, 0x75, 0x30, 0x43, 0xae, 0x2f, 0x5b, 0x63, 0xc7, 0x1e, 0x3e, 0x51, 0xd7, 0xd0}
networkKey == <<199, 22, 208, 117, 48, 67, 174, 47, 91, 99, 199, 30, 62, 81, 215, 208>>

\* The assignments of app_main that fill a zeroed dataset, in source order.
SetActiveTimestamp(d) ==
  [d EXCEPT !.mActiveTimestamp = [mSeconds |-> 1, mTicks |-> 0, mAuthoritative |-> FALSE],
            !.mComponents.mIsActiveTimestampPresent = TRUE]
SetNetworkName(d) ==
  [d EXCEPT !.mNetworkName = memcpy(d.mNetworkName, networkName, strlen(networkName)),
            !.mComponents.mIsNetworkNamePresent = TRUE]
SetPanId(d) ==
  [d EXCEPT !.mPanId = 26475 % 65536,     \* 0x676b, uint16
            !.mComponents.mIsPanIdPresent = TRUE]
SetExtendedPanId(d) ==
  [d EXCEPT !.mExtendedPanId = memcpy(d.mExtendedPanId, extPanId, Len(extPanId)),
            !.mComponents.mIsExtendedPanIdPresent = TRUE]
\* Mutant of SetNetworkKey: the length copied is that of a pointer (4 bytes on
\* the target), as sizeof gives once the array has decayed.
SetNetworkKey_SizeofPointer(d) ==
  [d EXCEPT !.mNetworkKey = memcpy(d.mNetworkKey, networkKey, 4),
            !.mComponents.mIsNetworkKeyPresent = TRUE]

SetNetworkKey(d) ==
  [d EXCEPT !.mNetworkKey = memcpy(d.mNetworkKey, networkKey, Len(networkKey)),
            !.mComponents.mIsNetworkKeyPresent = TRUE]
SetChannel(d) ==
  [d EXCEPT !.mChannel = 11,
            !.mComponents.mIsChannelPresent = TRUE]
\* Mutant of SetChannelMask: the "present" flag is not set.
SetChannelMask_NoFlag(d) ==
  [d EXCEPT !.mChannelMask = 134215680]

SetChannelMask(d) ==
  [d EXCEPT !.mChannelMask = 134215680,   \* 0x07fff800
            !.mComponents.mIsChannelMaskPresent = TRUE]
SetSecurityPolicy(d) ==
  [d EXCEPT !.mSecurityPolicy = [mRotationTime |-> 672,
                                 mObtainNetworkKeyEnabled |-> TRUE,
                                 mNativeCommissioningEnabled |-> TRUE,
                                 mRoutersEnabled |-> TRUE,
                                 mExternalCommissioningEnabled |-> TRUE],
            !.mComponents.mIsSecurityPolicyPresent = TRUE]

\* The dataset app_main builds on the end-device fallback path (newDataset).
EndDeviceDataset ==
  SetSecurityPolicy(SetChannelMask(SetChannel(SetNetworkKey(SetExtendedPanId(
    SetPanId(SetNetworkName(SetActiveTimestamp(ZeroDataset))))))))

\* The dataset app_main builds on the forming path (dataset).
FormingDataset ==
  SetSecurityPolicy(SetChannelMask(SetChannel(SetNetworkKey(SetExtendedPanId(
    SetPanId(SetNetworkName(SetActiveTimestamp(ZeroDataset))))))))

\* What the persistent store may hold when the device starts: nothing, the
\* fixed credentials of an earlier run, the credentials of some other network,
\* or a partial dataset written through the CLI.
ForeignDataset ==
  [EndDeviceDataset EXCEPT !.mPanId = 4660, !.mChannel = 15,
                           !.mNetworkName = memcpy(Zeros(17), <<72, 111, 109, 101>>, 4)]
PartialDataset ==
  [ZeroDataset EXCEPT !.mChannel = 20, !.mComponents.mIsChannelPresent = TRUE]
Stored(d) == [has |-> TRUE, ds |-> d]
NoDataset == [has |-> FALSE]
StoredDatasets ==
  {NoDataset, Stored(EndDeviceDataset), Stored(ForeignDataset), Stored(PartialDataset)}

\* ---------------------------------------------------------------- state
VARIABLES
  variant,      \* build variant of the firmware
  boot,         \* how many times app_main has been entered
  aborted,      \* an ESP_ERROR_CHECK failed: abort()
  lock,         \* holder of the OpenThread lock: "free", "main", "led"
  stack,        \* the OpenThread instance as the code observes it
  stored0,      \* what the persistent store held when app_main was entered
  main_pc,      \* position of the startup task in app_main
  dataset,      \* app_main's local otOperationalDataset (dataset / newDataset)
  error,        \* app_main's local otError of otDatasetSetActive
  leaderError,  \* app_main's local otError of otThreadBecomeLeader
  trace,        \* what app_main did so far in this boot, in order
  runs,         \* per completed boot: commit status and dataset finally held
  led_pc,       \* position of led_blink_task ("none": not created)
  role,         \* led_blink_task's local otDeviceRole
  log_counter,  \* static uint32_t log_counter
  role_printed, \* static bool role_printed
  led_ops,      \* what led_blink_task did so far in the current cycle
  led_hist,     \* per completed cycle: role sampled and pattern driven
  led_cycles,   \* number of completed cycles
  uart_pc,      \* position of uart_read_task ("none": not created)
  len,          \* uart_read_task's local len
  data,         \* the first MaxRead bytes of uart_read_task's buffer
  uart_ops,     \* what uart_read_task did so far in the current iteration
  uart_iters    \* number of completed iterations

main_vars == <<main_pc, dataset, error, leaderError, trace, runs, stored0, boot>>
led_vars == <<led_pc, role, log_counter, role_printed, led_ops, led_hist, led_cycles>>
uart_vars == <<uart_pc, len, data, uart_ops, uart_iters>>
vars == <<variant, aborted, lock, stack, main_vars, led_vars, uart_vars>>

\* ------------------------------------------------- the OpenThread stack
\* The instance as app_main and led_blink_task observe it: the device role,
\* the commanded state of the IPv6 interface and of the Thread protocol, and
\* the active dataset of the persistent store.
StackAtStart(st) ==
  [role |-> OT_DEVICE_ROLE_DISABLED, ip6 |-> FALSE, thread |-> FALSE, active |-> st]

otIp6SetEnabled(s, en) == [s EXCEPT !.ip6 = en]

otThreadSetEnabled(s, en) ==
  [s EXCEPT !.thread = en,
            !.role = IF ~en THEN OT_DEVICE_ROLE_DISABLED
                     ELSE IF s.role = OT_DEVICE_ROLE_DISABLED THEN OT_DEVICE_ROLE_DETACHED
                     ELSE s.role]

otInstanceErasePersistentInfo(s) == [s EXCEPT !.active = NoDataset]

\* otDatasetSetActive stores the dataset when it returns OT_ERROR_NONE and
\* leaves the store alone otherwise.
otDatasetSetActive(s, d, err) ==
  IF err = OT_ERROR_NONE THEN [s EXCEPT !.active = Stored(d)] ELSE s

\* otDatasetGetActive returns OT_ERROR_NONE exactly when a dataset is stored.
otDatasetGetActive(s) == IF s.active.has THEN OT_ERROR_NONE ELSE OT_ERROR_FAILED

\* otThreadBecomeLeader makes the device leader when it returns OT_ERROR_NONE.
otThreadBecomeLeader(s, err) ==
  IF err = OT_ERROR_NONE THEN [s EXCEPT !.role = OT_DEVICE_ROLE_LEADER] ELSE s

\* The role changes inside the stack (attach, promotion, detach, or a CLI
\* "thread stop" / "thread start"); the stack's own task does this under the
\* lock, so only when no task of this file holds it.
StackRoleChange ==
  /\ ~aborted
  /\ lock = "free"
  /\ \E r \in Roles \ {stack.role} :
       stack' = [stack EXCEPT !.role = r, !.thread = (r # OT_DEVICE_ROLE_DISABLED)]
  /\ UNCHANGED <<variant, aborted, lock, main_vars, led_vars, uart_vars>>

\* --------------------------------------------------------------- app_main
\* A local of app_main that has not been assigned (or is out of scope).
Uninit == [uninit |-> TRUE]
NoError == "unset"

\* One entry of trace: an operation of app_main, its argument and whether the
\* startup task held the OpenThread lock when it performed it.
Event(op, arg) == [op |-> op, arg |-> arg, held |-> lock = "main"]

\* A step of app_main from one position to the next that records an event.
MainStep(from, to, op, arg) ==
  /\ main_pc = from
  /\ main_pc' = to
  /\ trace' = Append(trace, Event(op, arg))

\* abort(): the failed ESP_ERROR_CHECK ends every task of the process.
Abort ==
  /\ aborted' = TRUE
  /\ main_pc' = "aborted"
  /\ led_pc' = "aborted"
  /\ uart_pc' = "aborted"

MainOnly == UNCHANGED <<variant, aborted, lock, led_vars, uart_vars, runs, stored0, boot>>

\* nvs_flash_init, esp_event_loop_create_default, esp_netif_init,
\* esp_vfs_eventfd_register, esp_openthread_start: each under ESP_ERROR_CHECK.
MainBringUp ==
  /\ main_pc = "bringup"
  /\ \E ok \in BOOLEAN :
       IF ok THEN /\ main_pc' = "lock_acquire"
                  /\ UNCHANGED <<aborted, led_pc, uart_pc>>
             ELSE Abort
  /\ UNCHANGED <<variant, lock, stack, dataset, error, leaderError, trace, runs,
                 stored0, boot, role, log_counter, role_printed, led_ops, led_hist,
                 led_cycles, len, data, uart_ops, uart_iters>>

\* Mutant of MainLockAcquire: the bootstrap starts without taking the lock.
MainLockAcquire_Skipped ==
  /\ main_pc = "lock_acquire"
  /\ main_pc' = IF variant = "EndDevice" THEN "ed_link_mode" ELSE "f_router_eligible"
  /\ UNCHANGED <<variant, aborted, lock, stack, dataset, error, leaderError, trace, runs,
                 stored0, boot, led_vars, uart_vars>>

\* esp_openthread_lock_acquire(portMAX_DELAY)
MainLockAcquire ==
  /\ main_pc = "lock_acquire"
  /\ lock = "free"
  /\ lock' = "main"
  /\ main_pc' = IF variant = "EndDevice" THEN "ed_link_mode" ELSE "f_router_eligible"
  /\ trace' = Append(trace, [op |-> "lock_acquire", arg |-> 0, held |-> TRUE])
  /\ UNCHANGED <<variant, aborted, stack, dataset, error, leaderError, runs, stored0,
                 boot, led_vars, uart_vars>>

\* --- CONFIG_DEVICE_TYPE_END_DEVICE
EdSetLinkMode ==
  /\ MainStep("ed_link_mode", "ed_child_timeout", "otThreadSetLinkMode",
              [mRxOnWhenIdle |-> TRUE, mDeviceType |-> FALSE, mNetworkData |-> FALSE])
  /\ UNCHANGED <<stack, dataset, error, leaderError>> /\ MainOnly

EdSetChildTimeout ==
  /\ MainStep("ed_child_timeout", "ed_get_active", "otThreadSetChildTimeout", 15)
  /\ UNCHANGED <<stack, dataset, error, leaderError>> /\ MainOnly

\* Mutant of EdGetActive: the test of the query's result is inverted.
EdGetActive_Inverted ==
  /\ MainStep("ed_get_active",
              IF otDatasetGetActive(stack) # OT_ERROR_NONE THEN "ed_join_ip6" ELSE "ed_build",
              "otDatasetGetActive", otDatasetGetActive(stack))
  /\ dataset' = IF otDatasetGetActive(stack) = OT_ERROR_NONE THEN stack.active.ds ELSE dataset
  /\ UNCHANGED <<stack, error, leaderError>> /\ MainOnly

\* if (otDatasetGetActive(instance, &dataset) == OT_ERROR_NONE)
EdGetActive ==
  /\ MainStep("ed_get_active",
              IF otDatasetGetActive(stack) = OT_ERROR_NONE THEN "ed_join_ip6" ELSE "ed_build",
              "otDatasetGetActive", otDatasetGetActive(stack))
  /\ dataset' = IF otDatasetGetActive(stack) = OT_ERROR_NONE THEN stack.active.ds ELSE dataset
  /\ UNCHANGED <<stack, error, leaderError>> /\ MainOnly

EdJoinIp6 ==
  /\ MainStep("ed_join_ip6", "ed_join_thread", "otIp6SetEnabled", TRUE)
  /\ stack' = otIp6SetEnabled(stack, TRUE)
  /\ UNCHANGED <<dataset, error, leaderError>> /\ MainOnly

EdJoinThread ==
  /\ MainStep("ed_join_thread", "ed_create_led", "otThreadSetEnabled", TRUE)
  /\ stack' = otThreadSetEnabled(stack, TRUE)
  /\ UNCHANGED <<dataset, error, leaderError>> /\ MainOnly

\* otOperationalDataset newDataset; memset; the field assignments
EdBuildDataset ==
  /\ main_pc = "ed_build"
  /\ main_pc' = "ed_commit"
  /\ dataset' = EndDeviceDataset
  /\ UNCHANGED <<stack, error, leaderError, trace>> /\ MainOnly

\* otError error = otDatasetSetActive(instance, &newDataset);
EdCommit ==
  /\ \E err \in OtErrors :
       /\ MainStep("ed_commit", "ed_ip6", "otDatasetSetActive", [ds |-> dataset, err |-> err])
       /\ stack' = otDatasetSetActive(stack, dataset, err)
       /\ error' = err
  /\ UNCHANGED <<dataset, leaderError>> /\ MainOnly

EdIp6 ==
  /\ MainStep("ed_ip6", "ed_thread", "otIp6SetEnabled", TRUE)
  /\ stack' = otIp6SetEnabled(stack, TRUE)
  /\ UNCHANGED <<dataset, error, leaderError>> /\ MainOnly

EdThread ==
  /\ MainStep("ed_thread", "ed_create_led", "otThreadSetEnabled", TRUE)
  /\ stack' = otThreadSetEnabled(stack, TRUE)
  /\ UNCHANGED <<dataset, error, leaderError>> /\ MainOnly

\* xTaskCreate(led_blink_task, "led_blink", 2048, NULL, 5, NULL);
EdCreateLed ==
  /\ MainStep("ed_create_led", "lock_release", "xTaskCreate", "led_blink")
  /\ led_pc' = "init"
  /\ UNCHANGED <<variant, aborted, lock, stack, dataset, error, leaderError, runs,
                 stored0, boot, role, log_counter, role_printed, led_ops, led_hist,
                 led_cycles, uart_vars>>

\* --- the forming (router/leader) variant
\* #if OPENTHREAD_FTD  otThreadSetRouterEligible(instance, true);  #endif
FSetRouterEligible ==
  /\ main_pc = "f_router_eligible"
  /\ main_pc' = "f_disable_thread"
  /\ \E ftd \in BOOLEAN :
       trace' = IF ftd THEN Append(trace, Event("otThreadSetRouterEligible", TRUE))
                ELSE trace
  /\ UNCHANGED <<stack, dataset, error, leaderError>> /\ MainOnly

FDisableThread ==
  /\ MainStep("f_disable_thread", "f_disable_ip6", "otThreadSetEnabled", FALSE)
  /\ stack' = otThreadSetEnabled(stack, FALSE)
  /\ UNCHANGED <<dataset, error, leaderError>> /\ MainOnly

FDisableIp6 ==
  /\ MainStep("f_disable_ip6", "f_erase", "otIp6SetEnabled", FALSE)
  /\ stack' = otIp6SetEnabled(stack, FALSE)
  /\ UNCHANGED <<dataset, error, leaderError>> /\ MainOnly

\* Mutant of FErase: the persistent store is not erased.
FErase_Skipped ==
  /\ main_pc = "f_erase"
  /\ main_pc' = "f_build"
  /\ UNCHANGED <<stack, dataset, error, leaderError, trace>> /\ MainOnly

FErase ==
  /\ MainStep("f_erase", "f_build", "otInstanceErasePersistentInfo", 0)
  /\ stack' = otInstanceErasePersistentInfo(stack)
  /\ UNCHANGED <<dataset, error, leaderError>> /\ MainOnly

\* otOperationalDataset dataset; memset; the field assignments
FBuildDataset ==
  /\ main_pc = "f_build"
  /\ main_pc' = "f_disable_thread2"
  /\ dataset' = FormingDataset
  /\ UNCHANGED <<stack, error, leaderError, trace>> /\ MainOnly

\* "Make sure Thread is disabled before setting dataset"
FDisableThread2 ==
  /\ MainStep("f_disable_thread2", "f_disable_ip6_2", "otThreadSetEnabled", FALSE)
  /\ stack' = otThreadSetEnabled(stack, FALSE)
  /\ UNCHANGED <<dataset, error, leaderError>> /\ MainOnly

\* Mutant of FDisableIp6_2: the interface is switched on, not off, before the
\* commit.
FDisableIp6_2_Enabled ==
  /\ MainStep("f_disable_ip6_2", "f_commit", "otIp6SetEnabled", TRUE)
  /\ stack' = otIp6SetEnabled(stack, TRUE)
  /\ UNCHANGED <<dataset, error, leaderError>> /\ MainOnly

FDisableIp6_2 ==
  /\ MainStep("f_disable_ip6_2", "f_commit", "otIp6SetEnabled", FALSE)
  /\ stack' = otIp6SetEnabled(stack, FALSE)
  /\ UNCHANGED <<dataset, error, leaderError>> /\ MainOnly

\* Mutant of FCommit: a refused commit ends the bootstrap.
FCommit_ReturnOnFailure ==
  /\ \E err \in OtErrors :
       /\ MainStep("f_commit", IF err = OT_ERROR_NONE THEN "f_ip6" ELSE "lock_release",
                   "otDatasetSetActive", [ds |-> dataset, err |-> err])
       /\ stack' = otDatasetSetActive(stack, dataset, err)
       /\ error' = err
  /\ UNCHANGED <<dataset, leaderError>> /\ MainOnly

\* otError error = otDatasetSetActive(instance, &dataset);
FCommit ==
  /\ \E err \in OtErrors :
       /\ MainStep("f_commit", "f_ip6", "otDatasetSetActive", [ds |-> dataset, err |-> err])
       /\ stack' = otDatasetSetActive(stack, dataset, err)
       /\ error' = err
  /\ UNCHANGED <<dataset, leaderError>> /\ MainOnly

\* Mutant of FIp6: the interface is not enabled before the protocol is.
FIp6_Forgotten ==
  /\ main_pc = "f_ip6"
  /\ main_pc' = "f_thread"
  /\ UNCHANGED <<stack, dataset, error, leaderError, trace>> /\ MainOnly

FIp6 ==
  /\ MainStep("f_ip6", "f_thread", "otIp6SetEnabled", TRUE)
  /\ stack' = otIp6SetEnabled(stack, TRUE)
  /\ UNCHANGED <<dataset, error, leaderError>> /\ MainOnly

FThread ==
  /\ MainStep("f_thread", "f_delay_500", "otThreadSetEnabled", TRUE)
  /\ stack' = otThreadSetEnabled(stack, TRUE)
  /\ UNCHANGED <<dataset, error, leaderError>> /\ MainOnly

\* Mutant of FDelay500: the lock is given up for the duration of the delay.
FDelay500_Unlocked ==
  /\ main_pc = "f_delay_500"
  /\ main_pc' = "f_become_leader"
  /\ lock' = "free"
  /\ trace' = trace \o <<[op |-> "lock_release", arg |-> 0, held |-> lock = "main"],
                          [op |-> "vTaskDelay", arg |-> 500, held |-> FALSE]>>
  /\ UNCHANGED <<variant, aborted, stack, dataset, error, leaderError, runs, stored0,
                 boot, led_vars, uart_vars>>

\* vTaskDelay(pdMS_TO_TICKS(500));
FDelay500 ==
  /\ MainStep("f_delay_500", "f_become_leader", "vTaskDelay", 500)
  /\ UNCHANGED <<stack, dataset, error, leaderError>> /\ MainOnly

\* Mutant of FBecomeLeader: the request is repeated until it succeeds.
FBecomeLeader_Retry ==
  /\ \E err \in OtErrors :
       /\ MainStep("f_become_leader",
                   IF err = OT_ERROR_NONE THEN "f_delay_2000" ELSE "f_become_leader",
                   "otThreadBecomeLeader", err)
       /\ stack' = otThreadBecomeLeader(stack, err)
       /\ leaderError' = err
  /\ UNCHANGED <<dataset, error>> /\ MainOnly

\* Mutant of FBecomeLeader: the request is wrapped in ESP_ERROR_CHECK.
FBecomeLeader_Checked ==
  /\ main_pc = "f_become_leader"
  /\ \E err \in OtErrors :
       /\ trace' = Append(trace, Event("otThreadBecomeLeader", err))
       /\ stack' = otThreadBecomeLeader(stack, err)
       /\ leaderError' = err
       /\ IF err = OT_ERROR_NONE
          THEN main_pc' = "f_delay_2000" /\ UNCHANGED <<aborted, led_pc, uart_pc>>
          ELSE Abort
  /\ UNCHANGED <<variant, lock, dataset, error, runs, stored0, boot, role, log_counter,
                 role_printed, led_ops, led_hist, led_cycles, len, data, uart_ops,
                 uart_iters>>

\* otError leaderError = otThreadBecomeLeader(instance); both results only log.
FBecomeLeader ==
  /\ \E err \in OtErrors :
       /\ MainStep("f_become_leader", "f_delay_2000", "otThreadBecomeLeader", err)
       /\ stack' = otThreadBecomeLeader(stack, err)
       /\ leaderError' = err
  /\ UNCHANGED <<dataset, error>> /\ MainOnly

\* Mutant of FDelay2000: the echo task is started before the delay and the
\* read-back, not after them.
FDelay2000_CreatesUart ==
  /\ main_pc = "f_delay_2000"
  /\ main_pc' = "f_read_back"
  /\ trace' = trace \o <<Event("xTaskCreate", "uart_read"), Event("vTaskDelay", 2000)>>
  /\ uart_pc' = "malloc"
  /\ UNCHANGED <<variant, aborted, lock, stack, dataset, error, leaderError, runs,
                 stored0, boot, led_vars, len, data, uart_ops, uart_iters>>

\* vTaskDelay(pdMS_TO_TICKS(2000));
FDelay2000 ==
  /\ MainStep("f_delay_2000", "f_read_back", "vTaskDelay", 2000)
  /\ UNCHANGED <<stack, dataset, error, leaderError>> /\ MainOnly

\* if (otDatasetGetActive(instance, &dataset) == OT_ERROR_NONE) { print it }
FReadBack ==
  /\ MainStep("f_read_back", "f_uart_setup", "otDatasetGetActive", otDatasetGetActive(stack))
  /\ dataset' = IF otDatasetGetActive(stack) = OT_ERROR_NONE THEN stack.active.ds ELSE dataset
  /\ UNCHANGED <<stack, error, leaderError>> /\ MainOnly

\* uart_driver_install, uart_param_config, uart_set_pin: each under ESP_ERROR_CHECK.
FUartSetup ==
  /\ main_pc = "f_uart_setup"
  /\ \E ok \in BOOLEAN :
       IF ok THEN /\ main_pc' = "f_create_uart"
                  /\ trace' = Append(trace, Event("uart_setup", 0))
                  /\ UNCHANGED <<aborted, led_pc, uart_pc>>
             ELSE /\ Abort
                  /\ UNCHANGED trace
  /\ UNCHANGED <<variant, lock, stack, dataset, error, leaderError, runs, stored0, boot,
                 role, log_counter, role_printed, led_ops, led_hist, led_cycles,
                 len, data, uart_ops, uart_iters>>

\* xTaskCreate(uart_read_task, "uart_read", 4096, NULL, 5, NULL);
FCreateUart ==
  /\ MainStep("f_create_uart", "f_create_led", "xTaskCreate", "uart_read")
  /\ uart_pc' = "malloc"
  /\ UNCHANGED <<variant, aborted, lock, stack, dataset, error, leaderError, runs,
                 stored0, boot, led_vars, len, data, uart_ops, uart_iters>>

\* xTaskCreate(led_blink_task, "led_blink", 2048, NULL, 5, NULL);
FCreateLed ==
  /\ MainStep("f_create_led", "lock_release", "xTaskCreate", "led_blink")
  /\ led_pc' = "init"
  /\ UNCHANGED <<variant, aborted, lock, stack, dataset, error, leaderError, runs,
                 stored0, boot, role, log_counter, role_printed, led_ops, led_hist,
                 led_cycles, uart_vars>>

\* Mutant of MainLockRelease: app_main returns without releasing the lock.
MainLockRelease_Forgotten ==
  /\ main_pc = "lock_release"
  /\ main_pc' = "done"
  /\ runs' = Append(runs, [error |-> error, active |-> stack.active])
  /\ dataset' = Uninit
  /\ error' = NoError
  /\ leaderError' = NoError
  /\ UNCHANGED <<variant, aborted, lock, stack, trace, stored0, boot, led_vars, uart_vars>>

\* esp_openthread_lock_release(); app_main then returns and its locals are gone.
MainLockRelease ==
  /\ main_pc = "lock_release"
  /\ main_pc' = "done"
  /\ lock' = "free"
  /\ trace' = Append(trace, [op |-> "lock_release", arg |-> 0, held |-> lock = "main"])
  /\ runs' = Append(runs, [error |-> error, active |-> stack.active])
  /\ dataset' = Uninit
  /\ error' = NoError
  /\ leaderError' = NoError
  /\ UNCHANGED <<variant, aborted, stack, stored0, boot, led_vars, uart_vars>>

\* ------------------------------------------------------ start and restart

Volatile(v, st) ==
  /\ variant = v
  /\ aborted = FALSE
  /\ lock = "free"
  /\ stack = StackAtStart(st)
  /\ stored0 = st
  /\ main_pc = "bringup"
  /\ dataset = Uninit
  /\ error = NoError
  /\ leaderError = NoError
  /\ trace = << >>
  /\ led_pc = "none"
  /\ role = OT_DEVICE_ROLE_DISABLED
  /\ log_counter = 0
  /\ role_printed = FALSE
  /\ led_ops = << >>
  /\ led_hist = << >>
  /\ led_cycles = 0
  /\ uart_pc = "none"
  /\ len = 0
  /\ data = << >>
  /\ uart_ops = << >>
  /\ uart_iters = 0

\* Power-on: app_main is entered with whatever the persistent store holds.
Init ==
  /\ \E v \in Variants, st \in StoredDatasets : Volatile(v, st)
  /\ boot = 1
  /\ runs = << >>

\* The device is restarted after a completed start-up: the same firmware runs
\* app_main again; only the persistent store survives.
Reboot ==
  /\ main_pc = "done"
  /\ boot < MaxBoots
  /\ boot' = boot + 1
  /\ variant' = variant
  /\ aborted' = FALSE
  /\ lock' = "free"
  /\ stack' = StackAtStart(stack.active)
  /\ stored0' = stack.active
  /\ main_pc' = "bringup"
  /\ dataset' = Uninit
  /\ error' = NoError
  /\ leaderError' = NoError
  /\ trace' = << >>
  /\ led_pc' = "none"
  /\ role' = OT_DEVICE_ROLE_DISABLED
  /\ log_counter' = 0
  /\ role_printed' = FALSE
  /\ led_ops' = << >>
  /\ led_hist' = << >>
  /\ led_cycles' = 0
  /\ uart_pc' = "none"
  /\ len' = 0
  /\ data' = << >>
  /\ uart_ops' = << >>
  /\ uart_iters' = 0
  /\ UNCHANGED runs

\* app_main, from entry to return.
MainNext ==
  \/ MainBringUp \/ MainLockAcquire
  \/ EdSetLinkMode \/ EdSetChildTimeout \/ EdGetActive \/ EdJoinIp6 \/ EdJoinThread
  \/ EdBuildDataset \/ EdCommit \/ EdIp6 \/ EdThread \/ EdCreateLed
  \/ FSetRouterEligible \/ FDisableThread \/ FDisableIp6 \/ FErase \/ FBuildDataset
  \/ FDisableThread2 \/ FDisableIp6_2 \/ FCommit \/ FIp6 \/ FThread \/ FDelay500
  \/ FBecomeLeader \/ FDelay2000 \/ FReadBack \/ FUartSetup \/ FCreateUart \/ FCreateLed
  \/ MainLockRelease

\* The start-up task alone, over restarts: the tasks it creates are not scheduled.
NextBoot == MainNext \/ Reboot
SpecBoot == Init /\ [][NextBoot]_vars

\* --------------------------------------------------------- led_blink_task
\* One entry of led_ops: an operation of led_blink_task, its argument and
\* whether the task held the OpenThread lock when it performed it.
LedEvent(op, arg) == [op |-> op, arg |-> arg, held |-> lock = "led"]

LedStep(from, to, op, arg) ==
  /\ led_pc = from
  /\ led_pc' = to
  /\ led_ops' = Append(led_ops, LedEvent(op, arg))

LedOnly == UNCHANGED <<variant, aborted, stack, main_vars, uart_vars>>

\* Mutant of Blink: the child branch holds the light for the router's durations.
Blink_ChildTiming(r) ==
  IF r = OT_DEVICE_ROLE_LEADER \/ r = OT_DEVICE_ROLE_ROUTER
  THEN [rgb |-> <<0, 50, 0>>, on |-> 100, off |-> 100]
  ELSE IF r = OT_DEVICE_ROLE_CHILD
  THEN [rgb |-> <<0, 0, 50>>, on |-> 100, off |-> 100]
  ELSE [rgb |-> <<50, 0, 0>>, on |-> 500, off |-> 500]

\* The if / else if / else over role: colour passed to led_strip_set_pixel
\* (red, green, blue) and the two vTaskDelay arguments in milliseconds.
Blink(r) ==
  IF r = OT_DEVICE_ROLE_LEADER \/ r = OT_DEVICE_ROLE_ROUTER
  THEN [rgb |-> <<0, 50, 0>>, on |-> 100, off |-> 100]
  ELSE IF r = OT_DEVICE_ROLE_CHILD
  THEN [rgb |-> <<0, 0, 50>>, on |-> 200, off |-> 200]
  ELSE [rgb |-> <<50, 0, 0>>, on |-> 500, off |-> 500]

\* ESP_ERROR_CHECK(led_strip_new_rmt_device(&strip_config, &rmt_config, &led_strip));
LedInit ==
  /\ led_pc = "init"
  /\ \E ok \in BOOLEAN :
       IF ok THEN led_pc' = "acquire" /\ UNCHANGED <<aborted, main_pc, uart_pc>>
             ELSE Abort
  /\ UNCHANGED <<variant, lock, stack, dataset, error, leaderError, trace, runs, stored0,
                 boot, role, log_counter, role_printed, led_ops, led_hist, led_cycles,
                 len, data, uart_ops, uart_iters>>

\* while (1) { esp_openthread_lock_acquire(portMAX_DELAY);
\* The model follows the loop for maxCycles cycles.  The event notes, for the
\* observer, the role the stack has at the moment the cycle begins.
LedLockAcquire(maxCycles) ==
  /\ led_pc = "acquire"
  /\ led_cycles < maxCycles
  /\ lock = "free"
  /\ lock' = "led"
  /\ led_pc' = "get_role"
  /\ led_ops' = <<[op |-> "lock_acquire", arg |-> stack.role, held |-> TRUE]>>
  /\ UNCHANGED <<role, log_counter, role_printed, led_hist, led_cycles>> /\ LedOnly

\* Mutant of LedGetRole: the role is read in the first cycle only, as if the
\* read had been hoisted out of the loop.
LedGetRole_ReadOnce ==
  /\ LedStep("get_role", "release", "otThreadGetDeviceRole",
             IF led_cycles = 0 THEN stack.role ELSE role)
  /\ role' = IF led_cycles = 0 THEN stack.role ELSE role
  /\ UNCHANGED <<lock, log_counter, role_printed, led_hist, led_cycles>> /\ LedOnly

\* otDeviceRole role = otThreadGetDeviceRole(instance);
LedGetRole ==
  /\ LedStep("get_role", "release", "otThreadGetDeviceRole", stack.role)
  /\ role' = stack.role
  /\ UNCHANGED <<lock, log_counter, role_printed, led_hist, led_cycles>> /\ LedOnly

\* Mutant of LedLockRelease: the lock is kept for the rest of the cycle.
LedLockRelease_Forgotten ==
  /\ led_pc = "release"
  /\ led_pc' = "log"
  /\ UNCHANGED <<lock, led_ops, role, log_counter, role_printed, led_hist, led_cycles>>
  /\ LedOnly

\* esp_openthread_lock_release();
LedLockRelease ==
  /\ led_pc = "release"
  /\ led_pc' = "log"
  /\ lock' = "free"
  /\ led_ops' = Append(led_ops, [op |-> "lock_release", arg |-> 0, held |-> lock = "led"])
  /\ UNCHANGED <<role, log_counter, role_printed, led_hist, led_cycles>> /\ LedOnly

\* Mutant of LedLog: the counter is incremented before the test (++log_counter),
\* so the first cycle is not logged.
LedLog_PreIncrement ==
  /\ led_pc = "log"
  /\ led_pc' = "set_pixel"
  /\ IF variant = "EndDevice"
     THEN /\ log_counter' = log_counter + 1
          /\ led_ops' = IF (log_counter + 1) % 50 = 0
                        THEN Append(led_ops, LedEvent("ESP_LOGI role", role))
                        ELSE led_ops
          /\ UNCHANGED role_printed
     ELSE /\ IF ~role_printed /\ role = OT_DEVICE_ROLE_LEADER
             THEN /\ led_ops' = Append(led_ops, LedEvent("ESP_LOGI leader", role))
                  /\ role_printed' = TRUE
             ELSE UNCHANGED <<led_ops, role_printed>>
          /\ UNCHANGED log_counter
  /\ UNCHANGED <<lock, role, led_hist, led_cycles>> /\ LedOnly

\* Mutant of LedLog: the latch is cleared in a cycle that samples another role,
\* so that the notice is given on every return to Leader.
LedLog_LatchReset ==
  /\ led_pc = "log"
  /\ led_pc' = "set_pixel"
  /\ IF variant = "EndDevice"
     THEN /\ log_counter' = log_counter + 1
          /\ led_ops' = IF log_counter % 50 = 0
                        THEN Append(led_ops, LedEvent("ESP_LOGI role", role))
                        ELSE led_ops
          /\ UNCHANGED role_printed
     ELSE /\ IF ~role_printed /\ role = OT_DEVICE_ROLE_LEADER
             THEN /\ led_ops' = Append(led_ops, LedEvent("ESP_LOGI leader", role))
                  /\ role_printed' = TRUE
             ELSE /\ UNCHANGED led_ops
                  /\ role_printed' = (role_printed /\ role = OT_DEVICE_ROLE_LEADER)
          /\ UNCHANGED log_counter
  /\ UNCHANGED <<lock, role, led_hist, led_cycles>> /\ LedOnly

\* #ifdef CONFIG_DEVICE_TYPE_END_DEVICE: if (log_counter++ % 50 == 0) ESP_LOGI(role)
\* #else: if (!role_printed && role == OT_DEVICE_ROLE_LEADER) { ESP_LOGI; role_printed = true; }
LedLog ==
  /\ led_pc = "log"
  /\ led_pc' = "set_pixel"
  /\ IF variant = "EndDevice"
     THEN /\ log_counter' = log_counter + 1   \* uint32_t: no wrap below 2^32 cycles
          /\ led_ops' = IF log_counter % 50 = 0
                        THEN Append(led_ops, LedEvent("ESP_LOGI role", role))
                        ELSE led_ops
          /\ UNCHANGED role_printed
     ELSE /\ IF ~role_printed /\ role = OT_DEVICE_ROLE_LEADER
             THEN /\ led_ops' = Append(led_ops, LedEvent("ESP_LOGI leader", role))
                  /\ role_printed' = TRUE
             ELSE UNCHANGED <<led_ops, role_printed>>
          /\ UNCHANGED log_counter
  /\ UNCHANGED <<lock, role, led_hist, led_cycles>> /\ LedOnly

\* led_strip_set_pixel(led_strip, 0, r, g, b);
LedSetPixel ==
  /\ LedStep("set_pixel", "refresh_on", "led_strip_set_pixel", Blink(role).rgb)
  /\ UNCHANGED <<lock, role, log_counter, role_printed, led_hist, led_cycles>> /\ LedOnly

\* led_strip_refresh(led_strip);
LedRefreshOn ==
  /\ LedStep("refresh_on", "delay_on", "led_strip_refresh", 0)
  /\ UNCHANGED <<lock, role, log_counter, role_printed, led_hist, led_cycles>> /\ LedOnly

\* vTaskDelay(pdMS_TO_TICKS(on));
LedDelayOn ==
  /\ LedStep("delay_on", "clear", "vTaskDelay", Blink(role).on)
  /\ UNCHANGED <<lock, role, log_counter, role_printed, led_hist, led_cycles>> /\ LedOnly

\* led_strip_clear(led_strip);
LedClear ==
  /\ LedStep("clear", "refresh_off", "led_strip_clear", 0)
  /\ UNCHANGED <<lock, role, log_counter, role_printed, led_hist, led_cycles>> /\ LedOnly

\* led_strip_refresh(led_strip);
LedRefreshOff ==
  /\ LedStep("refresh_off", "delay_off", "led_strip_refresh", 0)
  /\ UNCHANGED <<lock, role, log_counter, role_printed, led_hist, led_cycles>> /\ LedOnly

\* The arguments of the events of ops that are operation op, in order.
ArgsOf(ops, op) ==
  LET sel == SelectSeq(ops, LAMBDA e : e.op = op)
  IN  [i \in DOMAIN sel |-> sel[i].arg]

\* What a finished cycle did, read off its events: the role the stack
\* returned, the colour set and the two delays.
CycleRecord(ops) ==
  [role |-> ArgsOf(ops, "otThreadGetDeviceRole"),
   rgb  |-> ArgsOf(ops, "led_strip_set_pixel"),
   hold |-> ArgsOf(ops, "vTaskDelay")]

\* Mutant of LedDelayOff: the off duration is chosen from the stack's role at
\* that moment, not from the role sampled at the start of the cycle.
LedDelayOff_Resample(record) ==
  /\ LedStep("delay_off", "acquire", "vTaskDelay", Blink(stack.role).off)
  /\ led_cycles' = led_cycles + 1
  /\ led_hist' = IF record THEN Append(led_hist, CycleRecord(led_ops')) ELSE led_hist
  /\ UNCHANGED <<lock, role, log_counter, role_printed>> /\ LedOnly

\* vTaskDelay(pdMS_TO_TICKS(off)); } -- the end of the cycle.  With record the
\* finished cycle is added to led_hist.
LedDelayOff(record) ==
  /\ LedStep("delay_off", "acquire", "vTaskDelay", Blink(role).off)
  /\ led_cycles' = led_cycles + 1
  /\ led_hist' = IF record THEN Append(led_hist, CycleRecord(led_ops')) ELSE led_hist
  /\ UNCHANGED <<lock, role, log_counter, role_printed>> /\ LedOnly

\* The indicator loop once app_main has returned, after a start on an empty
\* store whose commit was refused: the task has been created and not yet
\* run, the lock is free, the stack changes role at will.  The observation
\* (trace, runs) starts here.
InitLed ==
  /\ variant \in Variants
  /\ boot = 1
  /\ aborted = FALSE
  /\ lock = "free"
  /\ stack = [role |-> OT_DEVICE_ROLE_DETACHED, ip6 |-> TRUE, thread |-> TRUE,
              active |-> NoDataset]
  /\ stored0 = NoDataset
  /\ main_pc = "done"
  /\ dataset = Uninit
  /\ error = NoError
  /\ leaderError = NoError
  /\ trace = << >>
  /\ runs = << >>
  /\ led_pc = "init"
  /\ role = OT_DEVICE_ROLE_DISABLED
  /\ log_counter = 0
  /\ role_printed = FALSE
  /\ led_ops = << >>
  /\ led_hist = << >>
  /\ led_cycles = 0
  /\ uart_pc = IF variant = "Forming" THEN "malloc" ELSE "none"
  /\ len = 0
  /\ data = << >>
  /\ uart_ops = << >>
  /\ uart_iters = 0

NextLed ==
  \/ StackRoleChange
  \/ LedInit \/ LedLockAcquire(MaxCycles) \/ LedGetRole \/ LedLockRelease \/ LedLog
  \/ LedSetPixel \/ LedRefreshOn \/ LedDelayOn \/ LedClear \/ LedRefreshOff
  \/ LedDelayOff(TRUE)
SpecLed == InitLed /\ [][NextLed]_vars

\* The same loop followed for fewer cycles, with its history.
NextLag ==
  \/ StackRoleChange
  \/ LedInit \/ LedLockAcquire(MaxLagCycles) \/ LedGetRole \/ LedLockRelease \/ LedLog
  \/ LedSetPixel \/ LedRefreshOn \/ LedDelayOn \/ LedClear \/ LedRefreshOff
  \/ LedDelayOff(TRUE)
SpecLag == InitLed /\ [][NextLag]_vars

\* The same loop followed past its fiftieth cycle, without its history.
NextLog ==
  \/ StackRoleChange
  \/ LedInit \/ LedLockAcquire(MaxLogCycles) \/ LedGetRole \/ LedLockRelease \/ LedLog
  \/ LedSetPixel \/ LedRefreshOn \/ LedDelayOn \/ LedClear \/ LedRefreshOff
  \/ LedDelayOff(FALSE)
SpecLog == InitLed /\ [][NextLog]_vars

\* --------------------------------------------------------- uart_read_task
\* Byte values the serial line delivers in the model.
Bytes == {1, 2, 3}
\* A byte of the buffer that has never been written.
Garbage == -1

Min(a, b) == IF a < b THEN a ELSE b

UartEvent(op, arg) == [op |-> op, arg |-> arg]

UartOnly == UNCHANGED <<variant, aborted, lock, stack, main_vars, led_vars>>

\* uint8_t *data = (uint8_t *) malloc(UART_BUF_SIZE);  (its first MaxRead bytes)
UartMalloc ==
  /\ uart_pc = "malloc"
  /\ uart_pc' = "read"
  /\ data' = [i \in 1..Min(MaxRead, UART_BUF_SIZE) |-> Garbage]
  /\ UNCHANGED <<len, uart_ops, uart_iters>> /\ UartOnly

\* Mutant of UartRead: the test is len >= 0, so a timeout is echoed too.
UartRead_AcceptsZero(maxIter) ==
  /\ uart_pc = "read"
  /\ uart_iters < maxIter
  /\ \E n \in (-1)..Min(MaxRead, UART_BUF_SIZE) :
       \E bytes \in [1..(IF n > 0 THEN n ELSE 0) -> Bytes] :
         /\ len' = n
         /\ data' = IF n > 0 THEN memcpy(data, bytes, n) ELSE data
         /\ uart_ops' = <<UartEvent("uart_read_bytes",
                           [size |-> UART_BUF_SIZE, ms |-> 2000, ret |-> n, bytes |-> bytes])>>
         /\ uart_pc' = IF n >= 0 THEN "log_rx" ELSE "log_wait"
  /\ UNCHANGED uart_iters /\ UartOnly

\* int len = uart_read_bytes(UART_NUM, data, UART_BUF_SIZE, pdMS_TO_TICKS(2000));
\* if (len > 0) ... else ...
\* The driver returns -1 on error, 0 on timeout, else the number of bytes it
\* stored at the start of data.  The model follows the loop for maxIter
\* iterations.
UartRead(maxIter) ==
  /\ uart_pc = "read"
  /\ uart_iters < maxIter
  /\ \E n \in (-1)..Min(MaxRead, UART_BUF_SIZE) :
       \E bytes \in [1..(IF n > 0 THEN n ELSE 0) -> Bytes] :
         /\ len' = n
         /\ data' = IF n > 0 THEN memcpy(data, bytes, n) ELSE data
         /\ uart_ops' = <<UartEvent("uart_read_bytes",
                           [size |-> UART_BUF_SIZE, ms |-> 2000, ret |-> n, bytes |-> bytes])>>
         /\ uart_pc' = IF n > 0 THEN "log_rx" ELSE "log_wait"
  /\ UNCHANGED uart_iters /\ UartOnly

\* ESP_LOGI(TAG, "UART received %d bytes:", len);
UartLogRx ==
  /\ uart_pc = "log_rx"
  /\ uart_pc' = "log_hex"
  /\ uart_ops' = Append(uart_ops, UartEvent("ESP_LOGI received", len))
  /\ UNCHANGED <<len, data, uart_iters>> /\ UartOnly

\* ESP_LOG_BUFFER_HEX(TAG, data, len);
UartLogHex ==
  /\ uart_pc = "log_hex"
  /\ uart_pc' = "write"
  /\ uart_ops' = Append(uart_ops, UartEvent("ESP_LOG_BUFFER_HEX", SubSeq(data, 1, len)))
  /\ UNCHANGED <<len, data, uart_iters>> /\ UartOnly

\* uart_write_bytes(UART_NUM, (const char *)data, len);
UartWrite ==
  /\ uart_pc = "write"
  /\ uart_pc' = "read"
  /\ uart_ops' = Append(uart_ops, UartEvent("uart_write_bytes", SubSeq(data, 1, len)))
  /\ uart_iters' = uart_iters + 1
  /\ UNCHANGED <<len, data>> /\ UartOnly

\* ESP_LOGI(TAG, "UART: Waiting for data on GPIO%d...", UART_RX_PIN);
UartLogWait ==
  /\ uart_pc = "log_wait"
  /\ uart_pc' = "read"
  /\ uart_ops' = Append(uart_ops, UartEvent("ESP_LOGI waiting", UART_RX_PIN))
  /\ uart_iters' = uart_iters + 1
  /\ UNCHANGED <<len, data>> /\ UartOnly

\* The echo loop once app_main has returned in the forming variant, after a
\* start on an empty store whose commit was refused: both tasks have been
\* created and have not run yet.  The observation (trace, runs) starts here.
InitUart ==
  /\ variant = "Forming"
  /\ boot = 1
  /\ aborted = FALSE
  /\ lock = "free"
  /\ stack = [role |-> OT_DEVICE_ROLE_DETACHED, ip6 |-> TRUE, thread |-> TRUE,
              active |-> NoDataset]
  /\ stored0 = NoDataset
  /\ main_pc = "done"
  /\ dataset = Uninit
  /\ error = NoError
  /\ leaderError = NoError
  /\ trace = << >>
  /\ runs = << >>
  /\ led_pc = "init"
  /\ role = OT_DEVICE_ROLE_DISABLED
  /\ log_counter = 0
  /\ role_printed = FALSE
  /\ led_ops = << >>
  /\ led_hist = << >>
  /\ led_cycles = 0
  /\ uart_pc = "malloc"
  /\ len = 0
  /\ data = << >>
  /\ uart_ops = << >>
  /\ uart_iters = 0

NextUart ==
  \/ UartMalloc \/ UartRead(MaxIter) \/ UartLogRx \/ UartLogHex \/ UartWrite \/ UartLogWait
SpecUart == InitUart /\ [][NextUart]_vars

\* ------------------------------------------------------------ the hand-off
\* The device from power-on: app_main, the indicator loop it creates and the
\* stack's own role changes, interleaved as the scheduler may interleave them.
\* The echo loop is created but not followed here: it shares no variable with
\* the other tasks (SpecUart follows it).
Next ==
  \/ MainNext
  \/ StackRoleChange
  \/ LedInit \/ LedLockAcquire(MaxHandoffCycles) \/ LedGetRole \/ LedLockRelease \/ LedLog
  \/ LedSetPixel \/ LedRefreshOn \/ LedDelayOn \/ LedClear \/ LedRefreshOff
  \/ LedDelayOff(FALSE)
Spec == Init /\ [][Next]_vars

\* The same under the scheduler's guarantees.  A task that can run does run:
\* the tasks app_main creates have the higher priority, but the indicator task
\* blocks on the lock or in vTaskDelay and the echo task in uart_read_bytes,
\* which leaves the processor to app_main; a task waiting for the lock gets
\* it once it is free.  The stack's role changes are under no obligation.
LedTask ==
  \/ LedInit \/ LedLockAcquire(MaxHandoffCycles) \/ LedGetRole \/ LedLockRelease \/ LedLog
  \/ LedSetPixel \/ LedRefreshOn \/ LedDelayOn \/ LedClear \/ LedRefreshOff
  \/ LedDelayOff(FALSE)
SpecLive == Init /\ [][Next]_vars /\ WF_vars(MainNext) /\ WF_vars(LedTask)

\* ================================================================ claims
\* ------------------------------------------------ reading app_main's trace
StackOps ==
  {"otThreadSetLinkMode", "otThreadSetChildTimeout", "otDatasetGetActive",
   "otIp6SetEnabled", "otThreadSetEnabled", "otDatasetSetActive",
   "otInstanceErasePersistentInfo", "otThreadSetRouterEligible", "otThreadBecomeLeader"}

IsStackOp(e) == e.op \in StackOps

\* Positions of trace at which operation op was performed.
Idx(op) == {i \in DOMAIN trace : trace[i].op = op}

\* The event at position i is operation op with argument arg.
Is(i, op, arg) == i \in DOMAIN trace /\ trace[i].op = op /\ trace[i].arg = arg

\* The stack commands issued after position i, in order.
CmdsAfter(i) == SelectSeq(SubSeq(trace, i + 1, Len(trace)), IsStackOp)

\* s is an initial part of: enable interface, enable protocol.
EnablePrefix(s) ==
  /\ Len(s) <= 2
  /\ Len(s) >= 1 => s[1].op = "otIp6SetEnabled" /\ s[1].arg = TRUE
  /\ Len(s) >= 2 => s[2].op = "otThreadSetEnabled" /\ s[2].arg = TRUE

\* The end-device query of the persistent store was made and returned err.
EdQueried(err) ==
  /\ variant = "EndDevice"
  /\ \E q \in Idx("otDatasetGetActive") : trace[q].arg = err

AllPresent(d) ==
  /\ d.mComponents.mIsActiveTimestampPresent
  /\ d.mComponents.mIsNetworkNamePresent
  /\ d.mComponents.mIsPanIdPresent
  /\ d.mComponents.mIsExtendedPanIdPresent
  /\ d.mComponents.mIsNetworkKeyPresent
  /\ d.mComponents.mIsChannelPresent
  /\ d.mComponents.mIsChannelMaskPresent
  /\ d.mComponents.mIsSecurityPolicyPresent

\* C3: on the end-device path, once the query for persisted credentials has
\* succeeded, no commit and no erase is ever issued; the stack commands after
\* the query are enable-interface then enable-protocol and nothing else (both
\* issued by the time app_main returns), and the stored dataset is the one
\* found at start.
C3_JoinPathLeavesDatasetAlone ==
  EdQueried(OT_ERROR_NONE) =>
    /\ Idx("otDatasetSetActive") = {}
    /\ Idx("otInstanceErasePersistentInfo") = {}
    /\ \A q \in Idx("otDatasetGetActive") :
         /\ EnablePrefix(CmdsAfter(q))
         /\ main_pc = "done" => Len(CmdsAfter(q)) = 2
    /\ stack.active = stored0

C3_Witness ==
  /\ EdQueried(OT_ERROR_NONE)
  /\ main_pc = "done"
  /\ stored0 = Stored(ForeignDataset)
  /\ stack.ip6 /\ stack.thread

\* C4: on the end-device path, once the query for persisted credentials has
\* failed, at most one commit is issued, exactly one by the time the interface
\* is enabled, and the dataset passed to it has all eight "present" flags set.
C4_FallbackCommitsFullDataset ==
  EdQueried(OT_ERROR_FAILED) =>
    /\ Cardinality(Idx("otDatasetSetActive")) <= 1
    /\ \A c \in Idx("otDatasetSetActive") : AllPresent(trace[c].arg.ds)
    /\ (Idx("otIp6SetEnabled") # {} \/ main_pc = "done")
         => Cardinality(Idx("otDatasetSetActive")) = 1

C4_Witness ==
  /\ EdQueried(OT_ERROR_FAILED)
  /\ main_pc = "done"
  /\ \E c \in Idx("otDatasetSetActive") : AllPresent(trace[c].arg.ds)

\* C5: on the forming path every commit and every query of the stored dataset
\* is preceded by the erase of the persistent store, whatever was stored at
\* start; the erase is issued exactly once by the time app_main returns.
C5_EraseBeforeCommit ==
  variant = "Forming" =>
    /\ \A c \in Idx("otDatasetSetActive") :
         \E e \in Idx("otInstanceErasePersistentInfo") : e < c
    /\ \A g \in Idx("otDatasetGetActive") :
         \E e \in Idx("otInstanceErasePersistentInfo") : e < g
    /\ main_pc \in {"f_commit", "done"} => Cardinality(Idx("otInstanceErasePersistentInfo")) = 1

C5_Witness ==
  /\ variant = "Forming"
  /\ main_pc = "done"
  /\ stored0 = Stored(ForeignDataset)
  /\ \E e \in Idx("otInstanceErasePersistentInfo"), c \in Idx("otDatasetSetActive") : e < c

\* C6 as stated: after two successive runs of the forming path the stack holds
\* the dataset it held after the first run.
C6_Original ==
  (variant = "Forming" /\ Len(runs) >= 2) => runs[2].active = runs[1].active

\* C6, amended: the dataset the stack holds after a run of the forming path is
\* decided by that run's commit status alone (the fixed dataset when the commit
\* returned OT_ERROR_NONE, none otherwise), whatever was stored before; so two
\* runs whose commits return the same status end with the same dataset.
C6_IdempotentGivenCommitStatus ==
  variant = "Forming" =>
    /\ \A i \in DOMAIN runs :
         runs[i].active = IF runs[i].error = OT_ERROR_NONE
                          THEN Stored(FormingDataset) ELSE NoDataset
    /\ \A i, j \in DOMAIN runs :
         runs[i].error = runs[j].error => runs[i].active = runs[j].active

C6_Witness ==
  /\ variant = "Forming"
  /\ Len(runs) = 2
  /\ runs[1].error = OT_ERROR_NONE
  /\ runs[2].error = OT_ERROR_NONE
  /\ runs[2].active = runs[1].active

\* C7: on both paths, whatever status the commit returned, the stack commands
\* that follow it begin with enable-interface, enable-protocol (both issued by
\* the time app_main returns), no disable is issued after it, and app_main
\* returns with interface and protocol commanded enabled.
C7_CommitFailureDoesNotStopBootstrap ==
  \A c \in Idx("otDatasetSetActive") :
    /\ EnablePrefix(SubSeq(CmdsAfter(c), 1, IF Len(CmdsAfter(c)) < 2 THEN Len(CmdsAfter(c)) ELSE 2))
    /\ \A i \in DOMAIN trace :
         (i > c /\ trace[i].op \in {"otIp6SetEnabled", "otThreadSetEnabled"})
           => trace[i].arg = TRUE
    /\ main_pc \in {"lock_release", "done"} =>
         /\ Len(CmdsAfter(c)) >= 2
         /\ stack.ip6 /\ stack.thread

C7_Witness ==
  /\ variant = "Forming"
  /\ main_pc = "done"
  /\ \E c \in Idx("otDatasetSetActive") : trace[c].arg.err = OT_ERROR_FAILED
  /\ stack.ip6 /\ stack.thread

\* C10: the forming path issues at most one "become leader" request, directly
\* after enable-interface, enable-protocol and the 500 ms delay; whatever it
\* returned it is followed by the 2000 ms delay and the read-back of the
\* dataset, and by the time app_main returns exactly one was issued.  The
\* end-device path issues none.
C10_OneLeaderNudge ==
  /\ variant = "EndDevice" => Idx("otThreadBecomeLeader") = {}
  /\ variant = "Forming" =>
       /\ Cardinality(Idx("otThreadBecomeLeader")) <= 1
       /\ \A l \in Idx("otThreadBecomeLeader") :
            /\ Is(l - 3, "otIp6SetEnabled", TRUE)
            /\ Is(l - 2, "otThreadSetEnabled", TRUE)
            /\ Is(l - 1, "vTaskDelay", 500)
            /\ l + 1 \in DOMAIN trace => Is(l + 1, "vTaskDelay", 2000)
            /\ l + 2 \in DOMAIN trace => trace[l + 2].op = "otDatasetGetActive"
            /\ main_pc \in {"f_uart_setup", "done"} => l + 2 \in DOMAIN trace
       /\ main_pc \in {"f_uart_setup", "done"} => Cardinality(Idx("otThreadBecomeLeader")) = 1

C10_Witness ==
  /\ variant = "Forming"
  /\ main_pc = "done"
  /\ Cardinality(Idx("otThreadBecomeLeader")) = 1
  /\ \E l \in Idx("otThreadBecomeLeader") : trace[l].arg = OT_ERROR_FAILED

\* ---------------------------------------------------- the indicator loop
LightOps == {"led_strip_set_pixel", "led_strip_clear", "led_strip_refresh", "vTaskDelay"}

\* Positions of led_ops at which a light operation or a hold delay was performed.
LightIdx == {i \in DOMAIN led_ops : led_ops[i].op \in LightOps}

\* Positions of led_ops at which operation op was performed.
LedIdx(op) == {i \in DOMAIN led_ops : led_ops[i].op = op}

\* The task is between the release of the lock and the end of the cycle.
LedDriving ==
  led_pc \in {"log", "set_pixel", "refresh_on", "delay_on", "clear", "refresh_off", "delay_off"}

\* C1: in every cycle the indicator loop releases the lock before its first
\* light operation; no set-pixel, clear, refresh or hold delay of the cycle is
\* performed with the lock held, and the task does not hold the lock anywhere
\* between the release and the end of the cycle.
C1_NoLightOpUnderLock ==
  /\ \A i \in LightIdx :
       /\ ~led_ops[i].held
       /\ \E r \in LedIdx("lock_release") : r < i
  /\ LedDriving => lock # "led"

C1_Witness ==
  /\ led_pc = "acquire"
  /\ led_cycles >= 2
  /\ Cardinality(LightIdx) = 6
  /\ lock = "free"

\* The table of section 4.3, by role: colour name, on and off duration.
Table(r) ==
  CASE r = OT_DEVICE_ROLE_LEADER   -> <<"green", 100, 100>>
    [] r = OT_DEVICE_ROLE_ROUTER   -> <<"green", 100, 100>>
    [] r = OT_DEVICE_ROLE_CHILD    -> <<"blue", 200, 200>>
    [] r = OT_DEVICE_ROLE_DISABLED -> <<"red", 500, 500>>
    [] r = OT_DEVICE_ROLE_DETACHED -> <<"red", 500, 500>>

\* The name of a colour passed as (red, green, blue).
ColourName(rgb) ==
  IF rgb[1] > 0 /\ rgb[2] = 0 /\ rgb[3] = 0 THEN "red"
  ELSE IF rgb[1] = 0 /\ rgb[2] > 0 /\ rgb[3] = 0 THEN "green"
  ELSE IF rgb[1] = 0 /\ rgb[2] = 0 /\ rgb[3] > 0 THEN "blue"
  ELSE "other"

\* The pattern driven so far in the current cycle agrees with pattern t.
DrivenAgrees(ops, t) ==
  LET rgb  == ArgsOf(ops, "led_strip_set_pixel")
      hold == ArgsOf(ops, "vTaskDelay")
  IN  /\ Len(rgb) <= 1 /\ Len(hold) <= 2
      /\ Len(rgb) = 1 => ColourName(rgb[1]) = t[1]
      /\ Len(hold) >= 1 => hold[1] = t[2]
      /\ Len(hold) = 2 => hold[2] = t[3]

\* C2: for each of the five roles, the colour and the on and off durations the
\* loop drives in a cycle are those the table gives for the role the stack
\* returned in that cycle, whatever the stack's role has become since.
C2_PatternIsTableOfSampledRole ==
  \A g \in LedIdx("otThreadGetDeviceRole") :
    /\ led_ops[g].arg \in Roles
    /\ DrivenAgrees(led_ops, Table(led_ops[g].arg))

C2_Witness ==
  /\ led_pc = "acquire"
  /\ led_cycles >= 1
  /\ \E g \in LedIdx("otThreadGetDeviceRole") :
       /\ led_ops[g].arg = OT_DEVICE_ROLE_CHILD
       /\ stack.role = OT_DEVICE_ROLE_LEADER
  /\ ArgsOf(led_ops, "vTaskDelay") = <<200, 200>>

\* The operations of a cycle other than logging, in order.
CycleOps(ops) ==
  LET sel == SelectSeq(ops, LAMBDA e : e.op \notin {"ESP_LOGI role", "ESP_LOGI leader"})
  IN  [i \in DOMAIN sel |-> sel[i].op]

FullCycle ==
  <<"lock_acquire", "otThreadGetDeviceRole", "lock_release", "led_strip_set_pixel",
    "led_strip_refresh", "vTaskDelay", "led_strip_clear", "led_strip_refresh", "vTaskDelay">>

\* The pattern recorded for a finished cycle.
PatternOf(h) == <<ColourName(h.rgb[1]), h.hold[1], h.hold[2]>>

\* C8: a cycle's operations are an initial part of: sample the role once, set
\* colour, refresh, hold, clear, refresh, hold -- all nine when the cycle ends --
\* with the pattern of the sampled role; so the patterns of the finished cycles
\* are the image, cycle by cycle, of the roles the stack returned, and roles
\* Disabled, Detached, Child, Router, Leader give red/500/500, red/500/500,
\* blue/200/200, green/100/100, green/100/100.
C8_CycleSequence ==
  /\ LET done == CycleOps(led_ops)
     IN  /\ Len(done) <= Len(FullCycle)
         /\ done = SubSeq(FullCycle, 1, Len(done))
         /\ (led_pc = "acquire" /\ led_cycles > 0) => done = FullCycle
  /\ Len(led_hist) = led_cycles
  /\ \A i \in DOMAIN led_hist :
       /\ Len(led_hist[i].role) = 1
       /\ Len(led_hist[i].rgb) = 1
       /\ Len(led_hist[i].hold) = 2
       /\ PatternOf(led_hist[i]) = Table(led_hist[i].role[1])
  /\ [i \in DOMAIN led_hist |-> led_hist[i].role[1]] =
         <<OT_DEVICE_ROLE_DISABLED, OT_DEVICE_ROLE_DETACHED, OT_DEVICE_ROLE_CHILD,
           OT_DEVICE_ROLE_ROUTER, OT_DEVICE_ROLE_LEADER>>
       => [i \in DOMAIN led_hist |-> PatternOf(led_hist[i])] =
            << <<"red", 500, 500>>, <<"red", 500, 500>>, <<"blue", 200, 200>>,
               <<"green", 100, 100>>, <<"green", 100, 100>> >>

C8_Witness ==
  /\ led_pc = "acquire"
  /\ [i \in DOMAIN led_hist |-> led_hist[i].role[1]] =
         <<OT_DEVICE_ROLE_DISABLED, OT_DEVICE_ROLE_DETACHED, OT_DEVICE_ROLE_CHILD,
           OT_DEVICE_ROLE_ROUTER, OT_DEVICE_ROLE_LEADER>>
  /\ CycleOps(led_ops) = FullCycle

\* ---------------------------------------------------------- the echo loop
\* The arguments of the events of the current iteration that are operation op.
UartArgs(op) ==
  LET sel == SelectSeq(uart_ops, LAMBDA e : e.op = op)
  IN  [i \in DOMAIN sel |-> sel[i].arg]

\* The current iteration has run to its end.
UartIterationDone ==
  /\ uart_ops # << >>
  /\ uart_ops[Len(uart_ops)].op \in {"uart_write_bytes", "ESP_LOGI waiting"}

\* C9: in every iteration of the echo loop, a read that returned n > 0 bytes is
\* followed by exactly one write, of exactly those n bytes in order, and by no
\* waiting notice; a read that returned n <= 0 is followed by exactly one
\* waiting notice and by no write; either way the task is then at the next read.
C9_EchoesExactlyWhatWasRead ==
  uart_ops # << >> =>
    LET rd      == uart_ops[1].arg
        writes  == UartArgs("uart_write_bytes")
        notices == UartArgs("ESP_LOGI waiting")
    IN  /\ uart_ops[1].op = "uart_read_bytes"
        /\ Len(UartArgs("uart_read_bytes")) = 1
        /\ rd.ret > 0 =>
             /\ Len(rd.bytes) = rd.ret
             /\ Len(writes) <= 1
             /\ \A i \in DOMAIN writes : writes[i] = rd.bytes
             /\ notices = << >>
             /\ uart_pc = "read" => Len(writes) = 1
        /\ rd.ret <= 0 =>
             /\ writes = << >>
             /\ Len(notices) <= 1
             /\ uart_pc = "read" => Len(notices) = 1
        /\ UartIterationDone <=> uart_pc = "read"

C9_Witness ==
  /\ uart_pc = "read"
  /\ uart_iters = 2
  /\ uart_ops[1].arg.ret = 2
  /\ UartArgs("uart_write_bytes") = << <<3, 1>> >>
  /\ data = <<3, 1, 3>>

\* ------------------------------------------------------------ the hand-off
\* Positions of app_main at which its next statement is a call into the stack.
MainStackPcs ==
  {"ed_link_mode", "ed_child_timeout", "ed_get_active", "ed_join_ip6", "ed_join_thread",
   "ed_commit", "ed_ip6", "ed_thread", "f_router_eligible", "f_disable_thread",
   "f_disable_ip6", "f_erase", "f_disable_thread2", "f_disable_ip6_2", "f_commit",
   "f_ip6", "f_thread", "f_become_leader", "f_read_back"}

\* C11: every call into the stack made by app_main (link mode, child timeout,
\* router eligibility, dataset get and set, erase, interface and protocol
\* enable and disable, become-leader) was made with the startup task holding
\* the lock, and every role read of the indicator loop with the loop holding
\* it; a task that is about to call into the stack is the holder of the lock.
C11_StackAccessUnderLock ==
  /\ \A i \in DOMAIN trace : IsStackOp(trace[i]) => trace[i].held
  /\ \A i \in DOMAIN led_ops : led_ops[i].op = "otThreadGetDeviceRole" => led_ops[i].held
  /\ main_pc \in MainStackPcs => lock = "main"
  /\ led_pc = "get_role" => lock = "led"

C11_Witness ==
  /\ variant = "Forming"
  /\ main_pc = "done"
  /\ led_cycles >= 1
  /\ \E l \in Idx("otThreadBecomeLeader") : trace[l].held
  /\ \E g \in LedIdx("otThreadGetDeviceRole") : led_ops[g].held
  /\ lock = "free"

\* The stack commands issued before position i, in order.
CmdsBefore(i) == SelectSeq(SubSeq(trace, 1, i - 1), IsStackOp)

\* A task that has been created and not ended by abort().
Created(pc) == pc \notin {"none", "aborted"}

\* C12: when app_main creates a task it has issued its last stack command --
\* enable-protocol on the end-device path, the read-back of the dataset on the
\* forming path -- and it issues none afterwards; so while the indicator loop
\* or the echo loop exists app_main is past its bootstrap sequence, with only
\* the remaining task creation and the release of the lock ahead.  The echo
\* task exists only in the forming variant, and is created before the
\* indicator task.
C12_TasksCreatedAfterLastStackCommand ==
  /\ \A t \in Idx("xTaskCreate") :
       /\ \A i \in DOMAIN trace : i > t => ~IsStackOp(trace[i])
       /\ LET before == CmdsBefore(t)
          IN  /\ before # << >>
              /\ IF variant = "EndDevice"
                 THEN /\ before[Len(before)].op = "otThreadSetEnabled"
                      /\ before[Len(before)].arg = TRUE
                 ELSE before[Len(before)].op = "otDatasetGetActive"
  /\ (Created(led_pc) \/ Created(uart_pc)) =>
       main_pc \in {"f_create_led", "lock_release", "done"}
  /\ Created(led_pc) => main_pc \in {"lock_release", "done"}
  /\ Created(uart_pc) => variant = "Forming"
  /\ (variant = "Forming" /\ Created(led_pc)) => Created(uart_pc)

C12_Witness ==
  /\ variant = "Forming"
  /\ main_pc = "lock_release"
  /\ lock = "main"
  /\ led_pc = "acquire"
  /\ uart_pc = "malloc"
  /\ Cardinality(Idx("xTaskCreate")) = 2

\* ------------------------------------------------------------------ abort
\* C13 as stated: the process aborts only in a step of the one-time bring-up
\* (nvs, event loop, netif, eventfd registration, stack platform start).
C13_Original ==
  [][(~aborted /\ aborted') => main_pc = "bringup"]_vars

\* C13, amended: the process aborts only in a step under ESP_ERROR_CHECK: the
\* bring-up, the serial-port setup of the forming variant, or the creation of
\* the light device by the indicator task (app_main then being past its last
\* checked step); no other step aborts, whatever status the stack returned.
C13_AbortOnlyUnderErrorCheck ==
  [][(~aborted /\ aborted') =>
       \/ main_pc = "bringup"
       \/ main_pc = "f_uart_setup" /\ variant = "Forming"
       \/ led_pc = "init" /\ main_pc \in {"lock_release", "done"} /\ main_pc' = "aborted"]_vars

C13_Witness ==
  /\ variant = "Forming"
  /\ aborted
  /\ \E c \in Idx("otDatasetSetActive") : trace[c].arg.err = OT_ERROR_FAILED
  /\ \E l \in Idx("otThreadBecomeLeader") : trace[l].arg = OT_ERROR_FAILED
  /\ \E t \in Idx("xTaskCreate") : trace[t].arg = "led_blink"

\* ------------------------------------------------------ the fixed dataset
\* The value of a hexadecimal numeral, given as its digits.
RECURSIVE Hex(_)
Hex(digits) ==
  IF digits = << >> THEN 0
  ELSE 16 * Hex(SubSeq(digits, 1, Len(digits) - 1)) + digits[Len(digits)]

\* The fixed credentials as section 6 of the specification lists them, every
\* other field zero and every other "present" flag false.
C14_Literal ==
  [ mActiveTimestamp  |-> [mSeconds |-> 1, mTicks |-> 0, mAuthoritative |-> FALSE],
    mPendingTimestamp |-> [mSeconds |-> 0, mTicks |-> 0, mAuthoritative |-> FALSE],
    mNetworkKey       |-> <<Hex(<<12, 7>>), Hex(<<1, 6>>), Hex(<<13, 0>>), Hex(<<7, 5>>),
                            Hex(<<3, 0>>), Hex(<<4, 3>>), Hex(<<10, 14>>), Hex(<<2, 15>>),
                            Hex(<<5, 11>>), Hex(<<6, 3>>), Hex(<<12, 7>>), Hex(<<1, 14>>),
                            Hex(<<3, 14>>), Hex(<<5, 1>>), Hex(<<13, 7>>), Hex(<<13, 0>>)>>,
    \* "OpenThread", then NUL up to the size of the field
    mNetworkName      |-> <<79, 112, 101, 110, 84, 104, 114, 101, 97, 100,
                            0, 0, 0, 0, 0, 0, 0>>,
    mExtendedPanId    |-> <<Hex(<<13, 14>>), Hex(<<10, 13>>), Hex(<<0, 0>>), Hex(<<11, 14>>),
                            Hex(<<14, 15>>), Hex(<<0, 0>>), Hex(<<12, 10>>), Hex(<<15, 14>>)>>,
    mMeshLocalPrefix  |-> <<0, 0, 0, 0, 0, 0, 0, 0>>,
    mDelay            |-> 0,
    mPanId            |-> Hex(<<6, 7, 6, 11>>),
    mChannel          |-> 11,
    mPskc             |-> <<0, 0, 0, 0, 0, 0, 0, 0, 0, 0, 0, 0, 0, 0, 0, 0>>,
    mSecurityPolicy   |-> [mRotationTime |-> 672,
                           mObtainNetworkKeyEnabled |-> TRUE,
                           mNativeCommissioningEnabled |-> TRUE,
                           mRoutersEnabled |-> TRUE,
                           mExternalCommissioningEnabled |-> TRUE],
    mChannelMask      |-> Hex(<<0, 7, 15, 15, 15, 8, 0, 0>>),
    mComponents       |-> [mIsActiveTimestampPresent |-> TRUE,
                           mIsPendingTimestampPresent |-> FALSE,
                           mIsNetworkKeyPresent |-> TRUE,
                           mIsNetworkNamePresent |-> TRUE,
                           mIsExtendedPanIdPresent |-> TRUE,
                           mIsMeshLocalPrefixPresent |-> FALSE,
                           mIsDelayPresent |-> FALSE,
                           mIsPanIdPresent |-> TRUE,
                           mIsChannelPresent |-> TRUE,
                           mIsPskcPresent |-> FALSE,
                           mIsSecurityPolicyPresent |-> TRUE,
                           mIsChannelMaskPresent |-> TRUE] ]

\* C14: every dataset app_main passes to the commit, on the forming path and
\* on the end-device fallback path alike, is field for field the fixed
\* literal; so is the local dataset from the moment it is built until the
\* commit, and so is what the store holds after an accepted commit.
C14_CommittedDatasetIsTheLiteral ==
  /\ EndDeviceDataset = FormingDataset
  /\ \A c \in Idx("otDatasetSetActive") :
       /\ trace[c].arg.ds = C14_Literal
       /\ trace[c].arg.err = OT_ERROR_NONE =>
            (main_pc # "done" => stack.active = Stored(C14_Literal))
  /\ main_pc \in {"ed_commit", "f_disable_thread2", "f_disable_ip6_2", "f_commit"}
       => dataset = C14_Literal
  /\ \A i \in DOMAIN runs :
       runs[i].error = OT_ERROR_NONE => runs[i].active = Stored(C14_Literal)

C14_Witness ==
  /\ boot = 2
  /\ Len(runs) = 1
  /\ runs[1].error = OT_ERROR_NONE
  /\ runs[1].active = Stored(C14_Literal)
  /\ main_pc = "lock_release"
  /\ \E c \in Idx("otDatasetSetActive") :
       trace[c].arg = [ds |-> C14_Literal, err |-> OT_ERROR_NONE]

\* app_main is between its acquire of the lock and its release.
InBootstrap == main_pc \notin {"bringup", "lock_acquire", "done", "aborted"}

\* C15: app_main acquires the lock once, as the first thing after bring-up,
\* and releases it once, as the last thing before it returns; everything in
\* between -- every stack command, both delays, the task creations -- is done
\* with the lock held, and the lock is the startup task's at every position in
\* between.  So the indicator loop holds the lock, or has sampled a role, only
\* when app_main has returned.
C15_LockHeldThroughoutBootstrap ==
  /\ Cardinality(Idx("lock_acquire")) <= 1
  /\ Cardinality(Idx("lock_release")) <= 1
  /\ trace # << >> => trace[1].op = "lock_acquire"
  /\ \A i \in DOMAIN trace : trace[i].held
  /\ \A r \in Idx("lock_release") : r = Len(trace) /\ main_pc \in {"done", "aborted"}
  /\ main_pc = "done" => Cardinality(Idx("lock_release")) = 1
  /\ InBootstrap => lock = "main"
  /\ (lock = "led" \/ led_ops # << >> \/ led_cycles > 0) => main_pc = "done"

C15_Witness ==
  /\ variant = "Forming"
  /\ main_pc = "done"
  /\ \E i, j \in Idx("vTaskDelay") :
       /\ trace[i].arg = 500 /\ trace[i].held
       /\ trace[j].arg = 2000 /\ trace[j].held
  /\ led_pc = "release"
  /\ led_cycles = 0
  /\ lock = "led"

\* ------------------------------------------------- lag behind the stack
\* The role the stack had when the current cycle began.
RoleAtCycleStart == led_ops[1].arg

\* The cycle in progress has sampled the role.
Sampled == LedIdx("otThreadGetDeviceRole") # {}

\* C16: a cycle drives the pattern of the role the stack had when the cycle
\* began: the role it samples is that role, and the colour and the delays
\* driven so far are that role's, whatever the stack's role has become in the
\* meantime.  So a change of role during a cycle is not seen in that cycle, and
\* the first cycle that begins after the change drives the new role's pattern:
\* the indication lags by at most one cycle.
C16_LagAtMostOneCycle ==
  led_ops # << >> =>
    /\ led_ops[1].op = "lock_acquire"
    /\ RoleAtCycleStart \in Roles
    /\ \A g \in LedIdx("otThreadGetDeviceRole") :
         led_ops[g].arg = RoleAtCycleStart /\ role = RoleAtCycleStart
    /\ led_pc \in {"get_role", "release"} => stack.role = RoleAtCycleStart
    /\ DrivenAgrees(led_ops, Table(RoleAtCycleStart))
    /\ (led_pc = "acquire" /\ led_cycles > 0) =>
         /\ Len(ArgsOf(led_ops, "vTaskDelay")) = 2
         /\ PatternOf(led_hist[led_cycles]) = Table(RoleAtCycleStart)

\* The role changed from Detached to Leader during the first cycle, which went
\* on in red; the second cycle began after the change and was driven in green.
C16_Witness ==
  /\ led_pc = "acquire"
  /\ led_cycles = 2
  /\ led_hist[1].role = <<OT_DEVICE_ROLE_DETACHED>>
  /\ PatternOf(led_hist[1]) = <<"red", 500, 500>>
  /\ RoleAtCycleStart = OT_DEVICE_ROLE_LEADER
  /\ PatternOf(led_hist[2]) = <<"green", 100, 100>>
  /\ stack.role = OT_DEVICE_ROLE_LEADER

\* -------------------------------------------------------------- progress
\* C17: the indicator task is created while app_main holds the lock, and
\* whenever it waits for a lock that app_main holds, app_main is at its
\* release; once created the task reaches its first role read (unless the
\* creation of the light device fails, which aborts the process), and from
\* its loop it goes on to complete every cycle the model follows, each time
\* getting the lock again.
C17_HandoffMakesProgress ==
  /\ []((Created(led_pc) /\ lock = "main") => main_pc = "lock_release")
  /\ (led_pc = "init") ~> (led_pc = "get_role" \/ aborted)
  /\ (led_pc = "get_role") ~> (led_pc = "acquire" /\ led_cycles = MaxHandoffCycles)

\* The task waits for the lock while app_main, which created it, still holds it.
C17_Witness ==
  /\ led_pc = "acquire"
  /\ led_cycles = 0
  /\ lock = "main"
  /\ main_pc = "lock_release"

\* ------------------------------------------------------ the leader notice
\* The history without the cycle whose operations led_ops still shows.
EarlierCycles ==
  IF led_pc = "acquire" /\ led_cycles > 0
  THEN SubSeq(led_hist, 1, led_cycles - 1)
  ELSE led_hist

\* Some earlier cycle sampled role Leader.
LeaderSampledEarlier ==
  \E i \in DOMAIN EarlierCycles : EarlierCycles[i].role[1] = OT_DEVICE_ROLE_LEADER

\* The cycle led_ops shows has passed the logging step.
PastLog ==
  /\ led_ops # << >>
  /\ led_pc \in {"set_pixel", "refresh_on", "delay_on", "clear", "refresh_off", "delay_off",
                  "acquire"}

\* C18: in the forming variant a cycle gives the "became leader" notice exactly
\* when it samples Leader and no earlier cycle did, and gives it once; the
\* latch is set exactly when some cycle so far has sampled Leader and passed
\* its logging step, so it is never cleared and over any sequence of sampled
\* roles there is at most one notice.
C18_LeaderNoticeOnce ==
  variant = "Forming" =>
    /\ Cardinality(LedIdx("ESP_LOGI leader")) <= 1
    /\ PastLog =>
         (LedIdx("ESP_LOGI leader") # {}
            <=> (role = OT_DEVICE_ROLE_LEADER /\ ~LeaderSampledEarlier))
    /\ ~PastLog => LedIdx("ESP_LOGI leader") = {}
    /\ role_printed <=>
         (LeaderSampledEarlier \/ (PastLog /\ role = OT_DEVICE_ROLE_LEADER))
    /\ LedIdx("ESP_LOGI role") = {}

\* Leader, then Child, then Leader again: the third cycle gives no notice.
C18_Witness ==
  /\ variant = "Forming"
  /\ led_cycles = 2
  /\ led_hist[1].role = <<OT_DEVICE_ROLE_LEADER>>
  /\ led_hist[2].role = <<OT_DEVICE_ROLE_CHILD>>
  /\ led_pc = "delay_off"
  /\ role = OT_DEVICE_ROLE_LEADER
  /\ role_printed
  /\ LedIdx("ESP_LOGI leader") = {}

\* --------------------------------------------------------- the role log
\* The number, from 0, of the cycle led_ops shows.
CycleIndex == IF led_pc = "acquire" THEN led_cycles - 1 ELSE led_cycles

\* The roles logged by the cycle led_ops shows.
RoleLogs == ArgsOf(led_ops, "ESP_LOGI role")

\* C19 as stated: in the forming variant a cycle that samples a role other
\* than Leader logs it when the cycle counter is a multiple of 50, and in the
\* end-device variant every cycle logs the role.
C19_Original ==
  PastLog =>
    /\ (variant = "Forming" /\ role # OT_DEVICE_ROLE_LEADER /\ CycleIndex % 50 = 0)
         => RoleLogs # << >>
    /\ variant = "EndDevice" => RoleLogs # << >>

\* C19, amended: the throttled role log belongs to the end-device variant: there
\* a cycle logs the role it sampled, whichever it is, exactly when the number
\* of earlier cycles is a multiple of 50 (cycles 1, 51, ...), log_counter
\* counting the cycles; the forming variant never logs the role of a cycle,
\* Leader or not, apart from the leader notice, and leaves the counter at 0.
C19_RoleLogThrottledInEndDevice ==
  /\ Len(RoleLogs) <= 1
  /\ variant = "EndDevice" =>
       /\ PastLog => (RoleLogs # << >> <=> CycleIndex % 50 = 0)
       /\ ~PastLog => RoleLogs = << >>
       /\ \A i \in DOMAIN RoleLogs : RoleLogs[i] = role
       /\ PastLog => log_counter = CycleIndex + 1
       /\ LedIdx("ESP_LOGI leader") = {}
  /\ variant = "Forming" =>
       /\ RoleLogs = << >>
       /\ log_counter = 0

\* The fifty-first cycle of the end-device variant logs the role again.
C19_Witness ==
  /\ variant = "EndDevice"
  /\ led_cycles = 50
  /\ led_pc = "delay_off"
  /\ role = OT_DEVICE_ROLE_CHILD
  /\ RoleLogs = <<OT_DEVICE_ROLE_CHILD>>
  /\ log_counter = 51

\* ------------------------------------------- interface before protocol
\* What app_main has commanded after its first n operations, interface and
\* protocol starting disabled.
RECURSIVE Commanded(_)
Commanded(n) ==
  IF n = 0 THEN [ip6 |-> FALSE, thread |-> FALSE]
  ELSE LET c == Commanded(n - 1)
           e == trace[n]
       IN  IF e.op = "otIp6SetEnabled" THEN [c EXCEPT !.ip6 = e.arg]
           ELSE IF e.op = "otThreadSetEnabled" THEN [c EXCEPT !.thread = e.arg]
           ELSE c

\* The stack command issued last before position i (i > 1 of a stack command).
PrevCmd(i) == CmdsBefore(i)[Len(CmdsBefore(i))]

\* C20: interface and protocol starting disabled, at no point of app_main is
\* the protocol commanded enabled with the interface commanded disabled; every
\* enable of the protocol directly follows an enable of the interface, every
\* disable of the interface directly follows a disable of the protocol, and
\* the stack's own flags agree with what has been commanded.
C20_ProtocolNeverEnabledWithoutInterface ==
  /\ \A n \in 0..Len(trace) : Commanded(n).thread => Commanded(n).ip6
  /\ stack.thread => stack.ip6
  /\ stack.ip6 = Commanded(Len(trace)).ip6
  /\ stack.thread = Commanded(Len(trace)).thread
  /\ \A i \in Idx("otThreadSetEnabled") :
       trace[i].arg = TRUE =>
         /\ CmdsBefore(i) # << >>
         /\ PrevCmd(i).op = "otIp6SetEnabled"
         /\ PrevCmd(i).arg = TRUE
  /\ \A i \in Idx("otIp6SetEnabled") :
       trace[i].arg = FALSE =>
         /\ CmdsBefore(i) # << >>
         /\ PrevCmd(i).op = "otThreadSetEnabled"
         /\ PrevCmd(i).arg = FALSE

\* The forming path at its end: two disable pairs, then the enable pair.
C20_Witness ==
  /\ variant = "Forming"
  /\ main_pc = "done"
  /\ Cardinality({i \in Idx("otIp6SetEnabled") : trace[i].arg = FALSE}) = 2
  /\ Cardinality({i \in Idx("otThreadSetEnabled") : trace[i].arg = TRUE}) = 1
  /\ Commanded(Len(trace)) = [ip6 |-> TRUE, thread |-> TRUE]

\* ------------------------------------------- commit only while disabled
\* The event is a command that switches the interface or the protocol on.
IsEnable(e) ==
  /\ e.op \in {"otIp6SetEnabled", "otThreadSetEnabled"}
  /\ e.arg = TRUE

\* The event is a command that switches the interface or the protocol.
IsSwitch(e) == e.op \in {"otIp6SetEnabled", "otThreadSetEnabled"}

\* The interface and protocol commands issued before position i, in order.
SwitchesBefore(i) == SelectSeq(SubSeq(trace, 1, i - 1), IsSwitch)

\* C21: a dataset commit is issued only while app_main has the protocol and
\* the interface commanded disabled. No enable of either is issued before a
\* commit; on the forming path the two commands directly before the commit
\* are the protocol disable and then the interface disable; on the end-device
\* path nothing has been switched before the commit; app_main commits at most
\* once per start.
C21_CommitOnlyWhileDisabled ==
  /\ \A i \in Idx("otDatasetSetActive") :
       /\ Commanded(i - 1) = [ip6 |-> FALSE, thread |-> FALSE]
       /\ \A j \in 1..(i - 1) : ~IsEnable(trace[j])
       /\ variant = "Forming" =>
            LET c == CmdsBefore(i)
                n == Len(CmdsBefore(i))
            IN  /\ n >= 2
                /\ c[n - 1].op = "otThreadSetEnabled" /\ c[n - 1].arg = FALSE
                /\ c[n].op = "otIp6SetEnabled" /\ c[n].arg = FALSE
       /\ variant = "EndDevice" => SwitchesBefore(i) = << >>
  /\ Cardinality(Idx("otDatasetSetActive")) <= 1
  /\ main_pc \in {"ed_commit", "f_commit"} =>
       Commanded(Len(trace)) = [ip6 |-> FALSE, thread |-> FALSE]

\* The forming path right after its commit: two disable pairs precede it and
\* nothing has been enabled yet.
C21_Witness ==
  /\ variant = "Forming"
  /\ main_pc = "f_ip6"
  /\ \E i \in Idx("otDatasetSetActive") :
       /\ i = Len(trace)
       /\ Len(SwitchesBefore(i)) = 4
       /\ Commanded(i) = [ip6 |-> FALSE, thread |-> FALSE]

====
